---- MODULE Spec2Model ----
(***************************************************************************)
(* Document question answering demo: text extraction from uploaded files   *)
(* (src/src/utils.py) and the Streamlit script that keeps the session      *)
(* context, validates a submission, calls the QA pipeline and locates the  *)
(* answer in the context (src/app/streamlit_app.py).                       *)
(*                                                                         *)
(* A text is a sequence of characters.  A character is written as a        *)
(* one-letter string, except "I^", which stands for U+0130 (capital I with *)
(* dot above); "^" stands for U+0307 (combining dot above).  Python's      *)
(* str.lower() maps U+0130 to the two characters "i", U+0307.              *)
(***************************************************************************)
EXTENDS Integers, Sequences, FiniteSets, TLC

VARIABLES context, upload_method, uploaded_file, question,
          view, oracle, session, call, ret

vars == <<context, upload_method, uploaded_file, question,
          view, oracle, session, call, ret>>

session_vars == <<context, upload_method, uploaded_file, question,
                  view, oracle, session>>

unit_vars == <<call, ret>>

----------------------------------------------------------------------------
(* Bounds of the explored inputs *)

MaxTextLen == 2

MaxLengthArg == 3

(* Program constants *)

max_length == 5000

window_radius == 100

----------------------------------------------------------------------------
(* Python string primitives *)

Min2(a, b) == IF a <= b THEN a ELSE b

Max2(a, b) == IF a >= b THEN a ELSE b

Fill(c, n) == [i \in 1..n |-> c]

(* s[i:j] with Python's clamping and negative indices *)
PySlice(s, i, j) ==
    LET n == Len(s)
        norm(k) == IF k < 0 THEN Max2(0, n + k) ELSE Min2(k, n)
    IN SubSeq(s, norm(i) + 1, norm(j))

IsSpace(c) == c \in {" ", "\n", "\t", "\r"}

(* str.strip(): s without its leading and trailing whitespace *)
strip(s) ==
    LET n == Len(s)
    IN IF \A i \in 1..n : IsSpace(s[i]) THEN <<>>
       ELSE LET lead == CHOOSE k \in 0..(n - 1) :
                           ~IsSpace(s[k + 1]) /\ \A j \in 1..k : IsSpace(s[j])
                trail == CHOOSE k \in 0..(n - 1) :
                            /\ ~IsSpace(s[n - k])
                            /\ \A j \in 0..(k - 1) : IsSpace(s[n - j])
            IN SubSeq(s, lead + 1, n - trail)

UpperToLower ==
    ("A" :> "a") @@ ("B" :> "b") @@ ("C" :> "c") @@ ("D" :> "d") @@
    ("E" :> "e") @@ ("F" :> "f") @@ ("G" :> "g") @@ ("H" :> "h") @@
    ("I" :> "i") @@ ("J" :> "j") @@ ("K" :> "k") @@ ("L" :> "l") @@
    ("M" :> "m") @@ ("N" :> "n") @@ ("O" :> "o") @@ ("P" :> "p") @@
    ("Q" :> "q") @@ ("R" :> "r") @@ ("S" :> "s") @@ ("T" :> "t") @@
    ("U" :> "u") @@ ("V" :> "v") @@ ("W" :> "w") @@ ("X" :> "x") @@
    ("Y" :> "y") @@ ("Z" :> "z")

(* lowercase of one character: one character, or two for U+0130 *)
LowerChar(c) ==
    IF c = "I^" THEN <<"i", "^">>
    ELSE IF c \in DOMAIN UpperToLower THEN <<UpperToLower[c]>>
    ELSE <<c>>

(* str.lower(): the concatenation of the lowercase of every character. *)
(* at(d) is where the lowercase of a wide character s[d] starts, src(k)  *)
(* the character of s that position k of the result comes from.          *)
lower(s) ==
    LET n == Len(s)
        wide == {i \in 1..n : s[i] = "I^"}
        at(d) == d + Cardinality({w \in wide : w < d})
        seconds == {at(d) + 1 : d \in wide}
        src(k) == k - Cardinality({p \in seconds : p <= k})
        low == IF wide = {} THEN [k \in 1..n |-> LowerChar(s[k])[1]]
               ELSE [k \in 1..(n + Cardinality(wide)) |->
                       IF k \in seconds THEN LowerChar(s[src(k)])[2]
                       ELSE LowerChar(s[src(k)])[1]]
    IN SubSeq(low, 1, Len(low))

(* str.find(): offset of the first occurrence, -1 when there is none *)
find(s, t) ==
    LET n == Len(s)
        m == Len(t)
        hits == {i \in 0..(n - m) : \A j \in 1..m : s[i + j] = t[j]}
    IN IF hits = {} THEN -1
       ELSE CHOOSE i \in hits : \A h \in hits : i <= h

(* str.split(sep)[-1]: the text after the last separator, the whole text *)
(* when there is none                                                    *)
split_last(s, sep) ==
    LET seps == {i \in 1..Len(s) : s[i] = sep}
    IN IF seps = {} THEN s
       ELSE LET k == CHOOSE i \in seps : \A j \in seps : j <= i
            IN SubSeq(s, k + 1, Len(s))

Digit(d) == <<"0", "1", "2", "3", "4", "5", "6", "7", "8", "9">>[d + 1]

RECURSIVE str_nat(_)
str_nat(n) == IF n < 10 THEN <<Digit(n)>> ELSE str_nat(n \div 10) \o <<Digit(n % 10)>>

(* str() of an integer *)
str_int(n) == IF n < 0 THEN <<"-">> \o str_nat(-n) ELSE str_nat(n)

----------------------------------------------------------------------------
(* src/src/utils.py *)

ErrorReadingPDF ==
    <<"E", "r", "r", "o", "r", " ", "r", "e", "a", "d", "i", "n", "g", " ",
      "P", "D", "F", ":", " ">>

ErrorReadingDOCX ==
    <<"E", "r", "r", "o", "r", " ", "r", "e", "a", "d", "i", "n", "g", " ",
      "D", "O", "C", "X", ":", " ">>

ErrorReadingTXT ==
    <<"E", "r", "r", "o", "r", " ", "r", "e", "a", "d", "i", "n", "g", " ",
      "T", "X", "T", ":", " ">>

UnsupportedFormat ==
    <<"U", "n", "s", "u", "p", "p", "o", "r", "t", "e", "d", " ", "f", "i",
      "l", "e", " ", "f", "o", "r", "m", "a", "t", ".", " ", "P", "l", "e",
      "a", "s", "e", " ", "u", "p", "l", "o", "a", "d", " ", "P", "D", "F",
      ",", " ", "D", "O", "C", "X", ",", " ", "o", "r", " ", "T", "X", "T",
      " ", "f", "i", "l", "e", "s", ".">>

(* str(e) of the TypeError raised by None + "\n" *)
NoneTypeError ==
    <<"u", "n", "s", "u", "p", "p", "o", "r", "t", "e", "d", " ", "o", "p",
      "e", "r", "a", "n", "d", " ", "t", "y", "p", "e", "(", "s", ")", " ",
      "f", "o", "r", " ", "+", ":", " ", "'", "N", "o", "n", "e", "T", "y",
      "p", "e", "'", " ", "a", "n", "d", " ", "'", "s", "t", "r", "'">>

(* The outcome of a step that may raise: a value, or the message str(e) *)
Value(v) == [raised |-> FALSE, val |-> v]

Raised(msg) == [raised |-> TRUE, val |-> msg]

(* An uploaded file: its name and what the decoders make of its bytes.    *)
(* kind is the format the bytes are valid in ("bad": none); parts are the  *)
(* pages, the paragraphs or the single decoded text; err is the message    *)
(* of the exception a decoder raises on bytes it cannot read.             *)
NoFile == [name |-> <<>>, kind |-> "none", parts |-> <<>>, err |-> <<>>]

Part(t) == [has_text |-> TRUE, text |-> t]

NonePart == [has_text |-> FALSE, text |-> <<>>]

(* text = ""; for part in parts: text += part + "\n" *)
RECURSIVE JoinLines(_, _)
JoinLines(parts, text) ==
    IF parts = <<>> THEN Value(text)
    ELSE IF ~Head(parts).has_text THEN Raised(NoneTypeError)
    ELSE JoinLines(Tail(parts), text \o Head(parts).text \o <<"\n">>)

extract_text_from_pdf(file) ==
    LET pdf_reader == IF file.kind = "pdf" THEN Value(file.parts)
                      ELSE Raised(file.err)
    IN IF pdf_reader.raised THEN ErrorReadingPDF \o pdf_reader.val
       ELSE LET text == JoinLines(pdf_reader.val, <<>>)
            IN IF text.raised THEN ErrorReadingPDF \o text.val
               ELSE strip(text.val)

extract_text_from_docx(file) ==
    LET doc == IF file.kind = "docx" THEN Value(file.parts)
               ELSE Raised(file.err)
    IN IF doc.raised THEN ErrorReadingDOCX \o doc.val
       ELSE LET text == JoinLines(doc.val, <<>>)
            IN IF text.raised THEN ErrorReadingDOCX \o text.val
               ELSE strip(text.val)

extract_text_from_txt(file) ==
    LET text == IF file.kind = "txt" THEN Value(file.parts[1].text)
                ELSE Raised(file.err)
    IN IF text.raised THEN ErrorReadingTXT \o text.val
       ELSE strip(text.val)

file_extension(name) == lower(split_last(name, "."))

(* Variant: the docx branch dispatches to the PDF extractor *)
process_uploaded_file_wrong_branch(file) ==
    LET ext == file_extension(file.name)
    IN IF ext = <<"p", "d", "f">> THEN extract_text_from_pdf(file)
       ELSE IF ext = <<"d", "o", "c", "x">> THEN extract_text_from_pdf(file)
       ELSE IF ext = <<"t", "x", "t">> THEN extract_text_from_txt(file)
       ELSE UnsupportedFormat

(* Variant: an unknown extension is read as plain text *)
process_uploaded_file_default_txt(file) ==
    LET ext == file_extension(file.name)
    IN IF ext = <<"p", "d", "f">> THEN extract_text_from_pdf(file)
       ELSE IF ext = <<"d", "o", "c", "x">> THEN extract_text_from_docx(file)
       ELSE extract_text_from_txt(file)

process_uploaded_file(file) ==
    LET ext == file_extension(file.name)
    IN IF ext = <<"p", "d", "f">> THEN extract_text_from_pdf(file)
       ELSE IF ext = <<"d", "o", "c", "x">> THEN extract_text_from_docx(file)
       ELSE IF ext = <<"t", "x", "t">> THEN extract_text_from_txt(file)
       ELSE UnsupportedFormat

truncation_marker(maxlen) ==
    <<"\n", "\n", "[", "T", "e", "x", "t", " ", "t", "r", "u", "n", "c",
      "a", "t", "e", "d", " ", "t", "o", " ">>
    \o str_int(maxlen) \o
    <<" ", "c", "h", "a", "r", "a", "c", "t", "e", "r", "s", "]">>

(* Variant: >= in place of > *)
truncate_text_inclusive(text, maxlen) ==
    IF Len(text) >= maxlen
    THEN PySlice(text, 0, maxlen) \o truncation_marker(maxlen)
    ELSE text

truncate_text(text, maxlen) ==
    IF Len(text) > maxlen
    THEN PySlice(text, 0, maxlen) \o truncation_marker(maxlen)
    ELSE text

----------------------------------------------------------------------------
(* src/app/streamlit_app.py *)

DefaultContext ==
    <<"A", "r", "t", "i", "f", "i", "c", "i", "a", "l", " ", "I", "n", "t",
      "e", "l", "l", "i", "g", "e", "n", "c", "e", " ", "(", "A", "I", ")",
      " ", "i", "s", " ", "i", "n", "t", "e", "l", "l", "i", "g", "e", "n",
      "c", "e", " ", "d", "e", "m", "o", "n", "s", "t", "r", "a", "t", "e",
      "d", " ", "b", "y", " ", "m", "a", "c", "h", "i", "n", "e", "s", ",",
      " ", "i", "n", " ", "c", "o", "n", "t", "r", "a", "s", "t", " ", "t",
      "o", " ", "t", "h", "e", " ", "n", "a", "t", "u", "r", "a", "l", " ",
      "i", "n", "t", "e", "l", "l", "i", "g", "e", "n", "c", "e", " ", "d",
      "i", "s", "p", "l", "a", "y", "e", "d", " ", "b", "y", " ", "h", "u",
      "m", "a", "n", "s", " ", "a", "n", "d", " ", "a", "n", "i", "m", "a",
      "l", "s", ".", " ", "L", "e", "a", "d", "i", "n", "g", " ", "A", "I",
      " ", "t", "e", "x", "t", "b", "o", "o", "k", "s", " ", "d", "e", "f",
      "i", "n", "e", " ", "t", "h", "e", " ", "f", "i", "e", "l", "d", " ",
      "a", "s", " ", "t", "h", "e", " ", "s", "t", "u", "d", "y", " ", "o",
      "f", " ", "i", "n", "t", "e", "l", "l", "i", "g", "e", "n", "t", " ",
      "a", "g", "e", "n", "t", "s", ".", " ", "A", "I", " ", "w", "a", "s",
      " ", "f", "o", "u", "n", "d", "e", "d", " ", "a", "s", " ", "a", "n",
      " ", "a", "c", "a", "d", "e", "m", "i", "c", " ", "d", "i", "s", "c",
      "i", "p", "l", "i", "n", "e", " ", "i", "n", " ", "1", "9", "5", "6",
      ".", " ", "A", "I", " ", "r", "e", "s", "e", "a", "r", "c", "h", " ",
      "h", "a", "s", " ", "t", "r", "i", "e", "d", " ", "a", "n", "d", " ",
      "d", "i", "s", "c", "a", "r", "d", "e", "d", " ", "m", "a", "n", "y",
      " ", "d", "i", "f", "f", "e", "r", "e", "n", "t", " ", "a", "p", "p",
      "r", "o", "a", "c", "h", "e", "s", ",", " ", "i", "n", "c", "l", "u",
      "d", "i", "n", "g", " ", "s", "i", "m", "u", "l", "a", "t", "i", "n",
      "g", " ", "t", "h", "e", " ", "b", "r", "a", "i", "n", ",", " ", "m",
      "o", "d", "e", "l", "i", "n", "g", " ", "h", "u", "m", "a", "n", " ",
      "p", "r", "o", "b", "l", "e", "m", " ", "s", "o", "l", "v", "i", "n",
      "g", ",", " ", "f", "o", "r", "m", "a", "l", " ", "l", "o", "g", "i",
      "c", ",", " ", "l", "a", "r", "g", "e", " ", "d", "a", "t", "a", "b",
      "a", "s", "e", "s", " ", "o", "f", " ", "k", "n", "o", "w", "l", "e",
      "d", "g", "e", ",", " ", "a", "n", "d", " ", "i", "m", "i", "t", "a",
      "t", "i", "n", "g", " ", "a", "n", "i", "m", "a", "l", " ", "b", "e",
      "h", "a", "v", "i", "o", "r", ".", " ", "I", "n", " ", "t", "h", "e",
      " ", "f", "i", "r", "s", "t", " ", "d", "e", "c", "a", "d", "e", "s",
      " ", "o", "f", " ", "t", "h", "e", " ", "2", "1", "s", "t", " ", "c",
      "e", "n", "t", "u", "r", "y", ",", " ", "h", "i", "g", "h", "l", "y",
      " ", "m", "a", "t", "h", "e", "m", "a", "t", "i", "c", "a", "l", " ",
      "s", "t", "a", "t", "i", "s", "t", "i", "c", "a", "l", " ", "m", "a",
      "c", "h", "i", "n", "e", " ", "l", "e", "a", "r", "n", "i", "n", "g",
      " ", "h", "a", "s", " ", "d", "o", "m", "i", "n", "a", "t", "e", "d",
      " ", "t", "h", "e", " ", "f", "i", "e", "l", "d", ".">>

Ellipsis == <<".", ".", ".">>

BlankView ==
    [upload_notice |-> FALSE, message |-> "none", error_text |-> <<>>,
     answer_box |-> <<>>, located |-> "na",
     before |-> <<>>, answer |-> <<>>, after |-> <<>>,
     answer_start |-> -1, answer_end |-> -1,
     context_start |-> 0, context_end |-> 0]

NoCallYet ==
    [called |-> FALSE, question |-> <<>>, context |-> <<>>,
     raised |-> FALSE, fault |-> <<>>]

(* Variant: an unsupported upload leaves the context as it was *)
input_section_skip_unsupported(ctx, method, file, context_input) ==
    IF method = "upload"
    THEN IF file # NoFile /\ process_uploaded_file(file) # UnsupportedFormat
         THEN truncate_text(process_uploaded_file(file), max_length)
         ELSE ctx
    ELSE context_input

(* lines 101-128: the context left in the session by the input section *)
input_section(ctx, method, file, context_input) ==
    IF method = "upload"
    THEN IF file # NoFile
         THEN truncate_text(process_uploaded_file(file), max_length)
         ELSE ctx
    ELSE context_input

(* Variant: the window starts at the beginning of the context *)
context_start_at_zero(answer_start) == 0

(* line 212 *)
context_start_of(answer_start) == Max2(0, answer_start - window_radius)

(* line 213 *)
context_end_of(n, answer_end) == Min2(n, answer_end + window_radius)

(* lines 207-231: the answer located in the context and its window *)
locate_answer(ctx, ans, shown) ==
    LET answer_start == find(lower(ctx), lower(ans))
    IN IF answer_start # -1
       THEN LET answer_end == answer_start + Len(ans)
                context_start == context_start_of(answer_start)
                context_end == context_end_of(Len(ctx), answer_end)
                before == PySlice(ctx, context_start, answer_start)
                answer == PySlice(ctx, answer_start, answer_end)
                after == PySlice(ctx, answer_end, context_end)
            IN [shown EXCEPT
                  !.located = "found",
                  !.before = IF context_start > 0 THEN Ellipsis \o before
                             ELSE before,
                  !.answer = answer,
                  !.after = IF context_end < Len(ctx) THEN after \o Ellipsis
                            ELSE after,
                  !.answer_start = answer_start,
                  !.answer_end = answer_end,
                  !.context_start = context_start,
                  !.context_end = context_end]
       ELSE [shown EXCEPT !.located = "not_found"]

(* Variant: the exception is not caught and ends the run *)
except_handler_uncaught(msg) ==
    [alive |-> FALSE,
     view |-> [BlankView EXCEPT !.message = "none", !.error_text = msg]]

(* lines 233-234: except Exception as e: st.error(...) *)
except_handler(msg) ==
    [alive |-> TRUE,
     view |-> [BlankView EXCEPT !.message = "error", !.error_text = msg]]

(* lines 161-234: the oracle call and the rendering of its result; *)
(* outcome is what the call qa_pipeline(question, context) produces *)
answer_block(ctx, q, outcome) ==
    [oracle |-> [called |-> TRUE, question |-> q, context |-> ctx,
                 raised |-> outcome.raised,
                 fault |-> IF outcome.raised THEN outcome.val ELSE <<>>],
     shown |-> IF outcome.raised THEN except_handler(outcome.val)
               ELSE [alive |-> TRUE,
                     view |-> locate_answer(ctx, outcome.val,
                                  [BlankView EXCEPT !.message = "answer",
                                                    !.answer_box = outcome.val])]]

Rejected(msg) ==
    [oracle |-> NoCallYet,
     shown |-> [alive |-> TRUE, view |-> [BlankView EXCEPT !.message = msg]]]

(* Variant: the question is not validated *)
question_section_any_question(ctx, q, ask_button, outcome) ==
    IF ~ask_button THEN Rejected("none")
    ELSE IF strip(ctx) = <<>> THEN Rejected("need_context")
    ELSE answer_block(ctx, q, outcome)

(* lines 155-234: if ask_button: ... *)
question_section(ctx, q, ask_button, outcome) ==
    IF ~ask_button THEN Rejected("none")
    ELSE IF strip(ctx) = <<>> THEN Rejected("need_context")
    ELSE IF strip(q) = <<>> THEN Rejected("need_question")
    ELSE answer_block(ctx, q, outcome)

(* One run of the script, top to bottom, on the widget values given.  A   *)
(* file that stays in the uploader is extracted again on every run, from *)
(* its first byte; the text area shows the session context until edited. *)
RunScript(method, file, context_input, q, ask_button, outcome) ==
    \E ctx \in {input_section(context, method, file, context_input)} :
    \E r \in {question_section(ctx, q, ask_button, outcome)} :
       /\ context' = ctx
       /\ upload_method' = method
       /\ uploaded_file' = file
       /\ question' = q
       /\ view' = [r.shown.view EXCEPT
                     !.upload_notice = (method = "upload" /\ file # NoFile)]
       /\ oracle' = r.oracle
       /\ session' = IF r.shown.alive THEN "interactive" ELSE "terminated"
       /\ UNCHANGED unit_vars

----------------------------------------------------------------------------
(* Inputs *)

Alphabet == {"a", "A", " ", "I^"}

ShortTexts == UNION {[1..n -> Alphabet] : n \in 0..MaxTextLen}

WindowTexts ==
    {Fill("b", n) \o core \o Fill("b", m) :
        n \in {window_radius, window_radius + 1},
        m \in {window_radius, window_radius + 1},
        core \in {<<"a">>, <<"I^", "A">>}}

MarkerLen == Len(truncation_marker(max_length))

(* Texts at the truncation limit, one over it, and over it by more than *)
(* the marker                                                          *)
BigFileTexts ==
    {<<" ">> \o Fill("b", max_length - 1) \o <<"a", "\n">>,
     Fill("b", max_length) \o <<"a">>}

BigTypedTexts == {Fill("b", max_length + MarkerLen) \o <<"a">>}

FixedTexts == {<<"I^", "a">>, <<" ", "A", " ">>}

TypedTexts == ShortTexts \cup FixedTexts \cup WindowTexts \cup BigTypedTexts

FileTexts == {<<>>, <<" ">>, <<"a">>} \cup FixedTexts \cup BigFileTexts

Questions == {<<>>, <<" ">>, <<"a">>, <<" ", "a", " ">>}

Answers ==
    {<<>>, <<"a">>, <<"A">>, <<"I^">>, <<"a", " ">>, <<"x">>,
     <<"1", "9", "5", "6">>}

ErrMsgs == {<<>>, <<"E", "O", "F">>}

Outcomes == {Value(a) : a \in Answers} \cup {Raised(m) : m \in ErrMsgs}

Names ==
    {<<"a", ".", "p", "d", "f">>, <<"a", ".", "b", ".", "P", "D", "F">>,
     <<"a", ".", "d", "o", "c", "x">>, <<"a", ".", "t", "x", "t">>,
     <<"a", ".", "c", "s", "v">>, <<"t", "x", "t">>}

PartLists ==
    {<<>>, <<Part(<<"a">>)>>, <<Part(<<" ", "A">>), Part(<<"a", " ">>)>>}

Contents ==
    {[kind |-> "pdf", parts |-> ps, err |-> <<"E", "O", "F">>] :
        ps \in PartLists \cup {<<Part(<<"a">>), NonePart>>}}
    \cup {[kind |-> "docx", parts |-> ps, err |-> <<"E", "O", "F">>] :
        ps \in PartLists}
    \cup {[kind |-> "txt", parts |-> <<Part(t)>>, err |-> <<>>] :
        t \in FileTexts}
    \cup {[kind |-> "bad", parts |-> <<>>, err |-> m] : m \in ErrMsgs}

Files ==
    {[name |-> n, kind |-> c.kind, parts |-> c.parts, err |-> c.err] :
        n \in Names, c \in Contents}

----------------------------------------------------------------------------
(* The session: one action per user event, each followed by a script run. *)
(* UploadFile offers every name: process_uploaded_file does not rely on   *)
(* the uploader's type filter.                                            *)

NoCall == [fn |-> "none", text |-> <<>>, maxlen |-> 0, file |-> NoFile]

Init ==
    /\ context = DefaultContext
    /\ upload_method = "upload"
    /\ uploaded_file = NoFile
    /\ question = <<>>
    /\ view = BlankView
    /\ oracle = NoCallYet
    /\ session = "interactive"
    /\ call = NoCall
    /\ ret = <<>>

ChooseInputMethod ==
    /\ session = "interactive"
    /\ \E m \in {"upload", "type"} :
          /\ m # upload_method
          /\ RunScript(m, NoFile, context, question, FALSE, Value(<<>>))

UploadFile ==
    /\ session = "interactive"
    /\ upload_method = "upload"
    /\ \E f \in Files :
          RunScript(upload_method, f, context, question, FALSE, Value(<<>>))

RemoveFile ==
    /\ session = "interactive"
    /\ upload_method = "upload"
    /\ uploaded_file # NoFile
    /\ RunScript(upload_method, NoFile, context, question, FALSE, Value(<<>>))

EditText ==
    /\ session = "interactive"
    /\ upload_method = "type"
    /\ \E t \in TypedTexts :
          RunScript(upload_method, uploaded_file, t, question, FALSE,
                    Value(<<>>))

EnterQuestion ==
    /\ session = "interactive"
    /\ \E q \in Questions :
          RunScript(upload_method, uploaded_file, context, q, FALSE,
                    Value(<<>>))

GetAnswer ==
    /\ session = "interactive"
    /\ \E outcome \in Outcomes :
          RunScript(upload_method, uploaded_file, context, question, TRUE,
                    outcome)

Next ==
    \/ ChooseInputMethod
    \/ UploadFile
    \/ RemoveFile
    \/ EditText
    \/ EnterQuestion
    \/ GetAnswer

Spec == Init /\ [][Next]_vars

----------------------------------------------------------------------------
(* The two pure functions of utils.py, applied to drawn arguments *)

LengthArgs == (-MaxLengthArg)..MaxLengthArg

CallTruncate ==
    \E t \in ShortTexts, m \in LengthArgs :
        /\ call' = [fn |-> "truncate_text", text |-> t, maxlen |-> m,
                    file |-> NoFile]
        /\ ret' = truncate_text(t, m)
        /\ UNCHANGED session_vars

CallProcess ==
    \E f \in Files :
        /\ call' = [fn |-> "process_uploaded_file", text |-> <<>>,
                    maxlen |-> 0, file |-> f]
        /\ ret' = process_uploaded_file(f)
        /\ UNCHANGED session_vars

NextUnit == CallTruncate \/ CallProcess

SpecUnit == Init /\ [][NextUnit]_vars

----------------------------------------------------------------------------
(* Properties *)

Blank(s) == \A i \in 1..Len(s) : IsSpace(s[i])

Trimmed(s) == s = <<>> \/ (~IsSpace(s[1]) /\ ~IsSpace(s[Len(s)]))

IsSubstring(t, s) ==
    \E i \in 0..(Len(s) - Len(t)) : SubSeq(s, i + 1, i + Len(t)) = t

StartsWith(s, p) == Len(p) <= Len(s) /\ SubSeq(s, 1, Len(p)) = p

(* The extension of a file name: the text after its last ".", lowercased; *)
(* the whole name when it has no "."                                     *)
NameExtension(name) ==
    LET dots == {i \in 1..Len(name) : name[i] = "."}
        after == IF dots = {} THEN 0
                 ELSE CHOOSE i \in dots : \A j \in dots : j <= i
    IN lower(SubSeq(name, after + 1, Len(name)))

SupportedExtensions ==
    {<<"p", "d", "f">>, <<"d", "o", "c", "x">>, <<"t", "x", "t">>}

UpperOf(c) == CHOOSE u \in DOMAIN UpperToLower : UpperToLower[u] = c

(* "Error reading <FORMAT>: " for an extension *)
ErrorPrefix(ext) ==
    <<"E", "r", "r", "o", "r", " ", "r", "e", "a", "d", "i", "n", "g", " ">>
    \o [i \in 1..Len(ext) |-> UpperOf(ext[i])] \o <<":", " ">>

KindOf(ext) ==
    IF ext = <<"p", "d", "f">> THEN "pdf"
    ELSE IF ext = <<"d", "o", "c", "x">> THEN "docx" ELSE "txt"

(* Decoding the file as the format its extension names raises *)
DecodeFaults(file) ==
    \/ file.kind # KindOf(NameExtension(file.name))
    \/ \E i \in 1..Len(file.parts) : ~file.parts[i].has_text

FaultMessage(file) ==
    IF file.kind # KindOf(NameExtension(file.name)) THEN file.err
    ELSE NoneTypeError

(* The string an upload that cannot be extracted produces *)
FailureText(file) ==
    IF NameExtension(file.name) \notin SupportedExtensions
    THEN UnsupportedFormat
    ELSE ErrorPrefix(NameExtension(file.name)) \o FaultMessage(file)

ExtractionFails(file) ==
    \/ NameExtension(file.name) \notin SupportedExtensions
    \/ DecodeFaults(file)

Submitted == view.message # "none"

(* C1: in every reachable session state the stored context is at most *)
(* max_length + len(truncation marker) characters long.               *)
C1_ContextBounded == Len(context) <= max_length + MarkerLen

(* C2: on every submission, a blank context or a blank question shows a *)
(* validation message and the oracle is not invoked; the oracle is      *)
(* invoked only when both are non-blank.                                *)
C2_ValidationBeforeOracle ==
    Submitted =>
        /\ (Blank(context) \/ Blank(question)) =>
              /\ view.message \in {"need_context", "need_question"}
              /\ ~oracle.called
        /\ oracle.called <=> (~Blank(context) /\ ~Blank(question))

C2_Witness ==
    /\ view.message = "need_question"
    /\ question = <<" ">>
    /\ ~Blank(context)
    /\ ~oracle.called

(* The widgets of a completed run accept a further event.  GetAnswer has *)
(* no guard besides the one EnterQuestion has.                           *)
Interactive ==
    /\ session = "interactive"
    /\ ENABLED EnterQuestion
    /\ ENABLED ChooseInputMethod
    /\ upload_method = "upload" => ENABLED UploadFile
    /\ upload_method = "type" => ENABLED EditText

(* C3: a fault raised by the oracle is caught and shown as an error   *)
(* message, and every submission path (validation failure, oracle     *)
(* failure, answer found, answer not found) ends in an interactive    *)
(* state where a further upload, edit or submission is enabled.       *)
C3_FaultsRecoverable ==
    /\ (oracle.called /\ oracle.raised) =>
          /\ view.message = "error"
          /\ view.error_text = oracle.fault
    /\ Submitted =>
          /\ view.message \in {"need_context", "need_question", "error",
                               "answer"}
          /\ Interactive

C3_Witness ==
    /\ oracle.called
    /\ oracle.raised
    /\ view.message = "error"
    /\ session = "interactive"

(* C4: the answer is reported found iff its lowercase is a substring of *)
(* the lowercase context, and when found the slice of the original      *)
(* context at [s, s + len(answer)) equals the answer up to case.        *)
C4_LocateSlice ==
    view.message = "answer" =>
        /\ view.located = "found" <=>
              IsSubstring(lower(view.answer_box), lower(context))
        /\ view.located = "found" =>
              lower(view.answer) = lower(view.answer_box)

(* C5: truncate(t, m) is t when len(t) <= m; otherwise it starts with *)
(* t[:m] and is m + len(marker) long, for every m.                    *)
C5_Truncate ==
    call.fn = "truncate_text" =>
        IF Len(call.text) <= call.maxlen THEN ret = call.text
        ELSE /\ StartsWith(ret, PySlice(call.text, 0, call.maxlen))
             /\ Len(ret) = call.maxlen + Len(truncation_marker(call.maxlen))

(* C5 amended: the same for every maximum length m >= 0. *)
C5_TruncateNonNegative ==
    (call.fn = "truncate_text" /\ call.maxlen >= 0) =>
        IF Len(call.text) <= call.maxlen THEN ret = call.text
        ELSE /\ StartsWith(ret, SubSeq(call.text, 1, call.maxlen))
             /\ Len(ret) = call.maxlen + Len(truncation_marker(call.maxlen))

C5_Witness ==
    /\ call.fn = "truncate_text"
    /\ call.maxlen = 1
    /\ Len(call.text) = 2
    /\ Len(ret) = 1 + Len(truncation_marker(1))

(* C6: for an extension pdf, docx or txt, extraction returns a string, *)
(* and when decoding faults the string is "Error reading <FORMAT>: "   *)
(* followed by the message, FORMAT matching the extension.             *)
C6_ExtractionContained ==
    (/\ call.fn = "process_uploaded_file"
     /\ NameExtension(call.file.name) \in SupportedExtensions) =>
        /\ DOMAIN ret = 1..Len(ret)
        /\ DecodeFaults(call.file) =>
              ret = ErrorPrefix(NameExtension(call.file.name))
                        \o FaultMessage(call.file)

C6_Witness ==
    /\ call.fn = "process_uploaded_file"
    /\ NameExtension(call.file.name) = <<"d", "o", "c", "x">>
    /\ call.file.kind = "bad"
    /\ ret = ErrorReadingDOCX \o <<"E", "O", "F">>

(* C7: every invocation of the oracle is given a question and a context *)
(* that are non-empty and have no leading or trailing whitespace.       *)
C7_OracleInputsTrimmed ==
    oracle.called =>
        /\ oracle.question # <<>> /\ Trimmed(oracle.question)
        /\ oracle.context # <<>> /\ Trimmed(oracle.context)

(* C8: when the answer is located, before and after are at most        *)
(* window_radius + 3 long; before is context[ws:s] prefixed with "..." *)
(* exactly when ws = max(0, s - 100) > 0, and after is context[e:we]   *)
(* suffixed with "..." exactly when we = min(len, e + 100) < len.      *)
C8_WindowBounded ==
    view.located = "found" =>
        LET s == view.answer_start
            e == view.answer_end
            n == Len(context)
            ws == IF s - window_radius > 0 THEN s - window_radius ELSE 0
            we == IF e + window_radius < n THEN e + window_radius ELSE n
        IN /\ e = s + Len(view.answer_box)
           /\ Len(view.before) <= window_radius + 3
           /\ Len(view.after) <= window_radius + 3
           /\ view.before = (IF ws > 0 THEN <<".", ".", ".">> ELSE <<>>)
                                \o PySlice(context, ws, s)
           /\ view.after = PySlice(context, e, we)
                               \o (IF we < n THEN <<".", ".", ".">> ELSE <<>>)

C8_Witness ==
    /\ view.located = "found"
    /\ view.context_start > 0
    /\ view.context_end < Len(context)
    /\ Len(view.before) = window_radius + 3
    /\ Len(view.after) = window_radius + 3

(* C9: for an extension other than pdf, docx and txt, extraction returns *)
(* the fixed unsupported-format message whatever the content.            *)
C9_UnsupportedFormat ==
    (/\ call.fn = "process_uploaded_file"
     /\ NameExtension(call.file.name) \notin SupportedExtensions) =>
        ret = UnsupportedFormat

C9_Witness ==
    /\ call.fn = "process_uploaded_file"
    /\ NameExtension(call.file.name) = <<"c", "s", "v">>
    /\ call.file.kind = "txt"
    /\ call.file.parts = <<Part(<<"a">>)>>
    /\ ret = UnsupportedFormat

(* C10: an upload whose extraction fails or whose format is unsupported *)
(* replaces the context by the error string and shows the success       *)
(* notice, and a submission with a non-blank question then invokes the  *)
(* oracle with that error string as context.                            *)
C10_FailedUploadReplacesContext ==
    (/\ upload_method = "upload"
     /\ uploaded_file # NoFile
     /\ ExtractionFails(uploaded_file)) =>
        /\ context = truncate_text(FailureText(uploaded_file), max_length)
        /\ view.upload_notice
        /\ (Submitted /\ ~Blank(question)) =>
              /\ oracle.called
              /\ oracle.context = FailureText(uploaded_file)

C10_Witness ==
    /\ uploaded_file # NoFile
    /\ uploaded_file.kind = "bad"
    /\ NameExtension(uploaded_file.name) = <<"p", "d", "f">>
    /\ view.upload_notice
    /\ oracle.called
    /\ oracle.context = ErrorReadingPDF \o <<"E", "O", "F">>
    /\ context # DefaultContext

====
